---- MODULE Spec2Model ----
(***************************************************************************)
(* A model of the Handlebars/Glimmer printer                               *)
(* (src/language-handlebars/printer-glimmer.js) and of the parser patch    *)
(* that normalizes blocks and partials (patches/@glimmer+syntax).          *)
(*                                                                         *)
(* Text is modelled character by character: a string is a sequence of      *)
(* one-character strings.  A Doc is modelled flattened, as a sequence of   *)
(* tokens [k, v, of, at]: k is the kind ("text", "line", "softline",       *)
(* "hardline", "dedent-hardline", "ifBreak"), v the characters of a text   *)
(* token, and (of, at) name the node and the mustache boundary a strip     *)
(* marker token was printed for.  Empty strings of the Doc print nothing   *)
(* and are left out, except the words of a fill.                           *)
(***************************************************************************)
EXTENDS Naturals, Sequences, FiniteSets, TLC

VARIABLES
  source,   \* the source text handed to the parser (a character sequence)
  parsed,   \* the AST as the parser and its Normalizer delivered it
  node,     \* the AST under print: a node record, or a heap of node records
  path,     \* where the printed node sits: parent, siblings, attribute name
  options,  \* [htmlWhitespaceSensitivity, singleQuote]
  doc,      \* the printed Doc, flattened to tokens
  outputs,  \* the texts rendered by the format calls so far, in order
  phase     \* how far the format operation is

vars == <<source, parsed, node, path, options, doc, outputs, phase>>

(***************************************************************************)
(* Bounds of the model.                                                    *)
(***************************************************************************)
MaxTextLen == 5
MaxSourceLen == 4
MaxChunks == 3
MaxAttrs == 4
MaxValueLen == 3
MaxChildren == 2

SeqsUpTo(S, n) == UNION {[1..k -> S] : k \in 0..n}

(***************************************************************************)
(* JavaScript string operations, as the printer uses them.                 *)
(***************************************************************************)
StartsWith(s, p) == Len(s) >= Len(p) /\ SubSeq(s, 1, Len(p)) = p

EndsWith(s, p) == Len(s) >= Len(p) /\ SubSeq(s, Len(s) - Len(p) + 1, Len(s)) = p

Drop(s, n) == SubSeq(s, n + 1, Len(s))

RECURSIVE IndexOf(_, _, _)
\* the first index >= from at which pat occurs in s, or 0
IndexOf(s, pat, from) ==
  IF from + Len(pat) - 1 > Len(s) THEN 0
  ELSE IF SubSeq(s, from, from + Len(pat) - 1) = pat THEN from
  ELSE IndexOf(s, pat, from + 1)

Includes(s, pat) == IndexOf(s, pat, 1) # 0

RECURSIVE ReplaceAll(_, _, _)
\* String.prototype.replaceAll: left to right, matches do not overlap, the
\* replacement is not scanned again
ReplaceAll(s, pat, rep) ==
  IF s = <<>> THEN <<>>
  ELSE IF StartsWith(s, pat) THEN rep \o ReplaceAll(Drop(s, Len(pat)), pat, rep)
  ELSE <<Head(s)>> \o ReplaceAll(Tail(s), pat, rep)

RECURSIVE Count(_, _)
Count(s, c) ==
  IF s = <<>> THEN 0 ELSE (IF Head(s) = c THEN 1 ELSE 0) + Count(Tail(s), c)

RECURSIVE Concat(_)
Concat(ss) == IF ss = <<>> THEN <<>> ELSE Head(ss) \o Concat(Tail(ss))

RECURSIVE JoinWith(_, _)
\* Array.prototype.join
JoinWith(ss, sep) ==
  IF ss = <<>> THEN <<>>
  ELSE IF Len(ss) = 1 THEN Head(ss)
  ELSE Head(ss) \o sep \o JoinWith(Tail(ss), sep)

(***************************************************************************)
(* htmlWhitespaceUtils: the HTML whitespace characters.                    *)
(***************************************************************************)
HtmlWhitespace == {"\t", "\n", "\f", "\r", " "}

RECURSIVE getLeadingWhitespace(_)
getLeadingWhitespace(s) ==
  IF s = <<>> \/ Head(s) \notin HtmlWhitespace THEN <<>>
  ELSE <<Head(s)>> \o getLeadingWhitespace(Tail(s))

RECURSIVE getTrailingWhitespace(_)
getTrailingWhitespace(s) ==
  IF s = <<>> \/ s[Len(s)] \notin HtmlWhitespace THEN <<>>
  ELSE getTrailingWhitespace(SubSeq(s, 1, Len(s) - 1)) \o <<s[Len(s)]>>

isWhitespaceOnly(s) == \A i \in 1..Len(s) : s[i] \in HtmlWhitespace

hasLeadingWhitespace(s) == s # <<>> /\ s[1] \in HtmlWhitespace

hasTrailingWhitespace(s) == s # <<>> /\ s[Len(s)] \in HtmlWhitespace

trimStart(s) == Drop(s, Len(getLeadingWhitespace(s)))

trimEnd(s) == SubSeq(s, 1, Len(s) - Len(getTrailingWhitespace(s)))

RECURSIVE SplitFrom(_, _)
\* String.prototype.split on runs of whitespace: cur is the word being read
SplitFrom(s, cur) ==
  IF s = <<>> THEN <<cur>>
  ELSE IF Head(s) \in HtmlWhitespace
       THEN <<cur>> \o SplitFrom(trimStart(s), <<>>)
       ELSE SplitFrom(Tail(s), cur \o <<Head(s)>>)

split(s) == SplitFrom(s, <<>>)

(***************************************************************************)
(* Doc tokens.                                                             *)
(***************************************************************************)
Tok(k, v) == [k |-> k, v |-> v, of |-> 0, at |-> ""]

Text(v) == IF v = <<>> THEN <<>> ELSE <<Tok("text", v)>>

line == Tok("line", <<>>)
softline == Tok("softline", <<>>)
hardline == Tok("hardline", <<>>)

dedent(t) == [t EXCEPT !.k = IF t.k = "hardline" THEN "dedent-hardline" ELSE "dedent-line"]

IsHardline(t) == t.k \in {"hardline", "dedent-hardline"}

IsBreak(t) == t.k \in {"line", "softline", "hardline", "dedent-line", "dedent-hardline"}

RECURSIVE Rendered(_)
\* the characters of the text tokens of a Doc, in order
Rendered(d) ==
  IF d = <<>> THEN <<>>
  ELSE (IF Head(d).k = "text" THEN Head(d).v ELSE <<>>) \o Rendered(Tail(d))

(***************************************************************************)
(* TextNode print helpers.                                                 *)
(***************************************************************************)
NEWLINES_TO_PRESERVE_MAX == 2

Min(a, b) == IF a < b THEN a ELSE b
Max(a, b) == IF a > b THEN a ELSE b

\* string.split("\n").length - 1
countNewLines(s) == Count(s, "\n")

RECURSIVE LeadingNewLineRun(_)
\* the match of /^([^\S\n\r]*[\n\r])+/: the leading whitespace up to its last
\* line break
LeadingNewLineRun(w) ==
  IF w = <<>> THEN <<>>
  ELSE IF w[Len(w)] \in {"\n", "\r"} THEN w
  ELSE LeadingNewLineRun(SubSeq(w, 1, Len(w) - 1))

countLeadingNewLines(s) == countNewLines(LeadingNewLineRun(getLeadingWhitespace(s)))

RECURSIVE TrailingNewLineRun(_)
\* the match of /([\n\r][^\S\n\r]*)+$/: the trailing whitespace from its first
\* line break
TrailingNewLineRun(w) ==
  IF w = <<>> THEN <<>>
  ELSE IF Head(w) \in {"\n", "\r"} THEN w
  ELSE TrailingNewLineRun(Tail(w))

countTrailingNewLines(s) == countNewLines(TrailingNewLineRun(getTrailingWhitespace(s)))

generateHardlinesUncapped(number) == [i \in 1..number |-> hardline]

generateHardlines(number) ==
  [i \in 1..Min(number, NEWLINES_TO_PRESERVE_MAX) |-> hardline]

RECURSIVE JoinLine(_)
\* join(line, words)
JoinLine(words) ==
  IF words = <<>> THEN <<>>
  ELSE IF Len(words) = 1 THEN <<Tok("text", Head(words))>>
  ELSE <<Tok("text", Head(words)), line>> \o JoinLine(Tail(words))

\* fill(join(line, htmlWhitespaceUtils.split(value)))
getTextValueParts(value) == JoinLine(split(value))

MapDedent(breaks) == [i \in 1..Len(breaks) |-> dedent(breaks[i])]

(***************************************************************************)
(* print, case "TextNode".  p is the path: attrName ("" outside an         *)
(* attribute), parent, previous and next (sibling types, "" when none),    *)
(* isFirst, isLast.                                                        *)
(***************************************************************************)
Sentinel == <<"{", "_", "{">>
Delim == <<"{", "{">>
EscapedDelim == <<"\\", "{", "{">>

\* node.chars.replaceAll("{{", "\\{{").replaceAll("{_{", "{{")
TextNodeText(chars) == ReplaceAll(ReplaceAll(chars, Delim, EscapedDelim), Sentinel, Delim)

JsTrim(s) == trimEnd(trimStart(s))

PrintClassText(text, p) ==
  LET formattedClasses == JoinWith(split(JsTrim(text)), <<" ">>)
      inConcat == p.parent = "ConcatStatement"
      leadingSpace == inConcat /\ p.previous \in {"MustacheStatement", "TextNode"}
                        /\ hasLeadingWhitespace(text)
      trailingSpace == inConcat /\ p.next \in {"MustacheStatement", "TextNode"}
                         /\ hasTrailingWhitespace(text) /\ formattedClasses # <<>>
  IN (IF leadingSpace THEN <<line>> ELSE <<>>)
       \o Text(formattedClasses)
       \o (IF trailingSpace THEN <<line>> ELSE <<>>)

PrintTextSensitive(text, p) ==
  LET shouldTrimTrailingNewlines == p.isLast /\ p.parent = "Template"
      shouldTrimLeadingNewlines == p.isFirst /\ p.parent = "Template"
      wsBreaks == IF countNewLines(text) # 0
                  THEN generateHardlines(countNewLines(text)) ELSE <<line>>
      leadingWhitespace == getLeadingWhitespace(text)
      leadBreaks == IF leadingWhitespace = <<>> THEN <<>>
                    ELSE IF countNewLines(leadingWhitespace) # 0
                    THEN generateHardlines(countNewLines(leadingWhitespace))
                    ELSE <<line>>
      text1 == Drop(text, Len(leadingWhitespace))
      tailingWhitespace == getTrailingWhitespace(text1)
      trail0 == IF countNewLines(tailingWhitespace) # 0
                THEN generateHardlines(countNewLines(tailingWhitespace))
                ELSE <<line>>
      trailBreaks == IF tailingWhitespace = <<>> \/ shouldTrimTrailingNewlines THEN <<>>
                     ELSE IF p.isLast THEN MapDedent(trail0) ELSE trail0
      text2 == SubSeq(text1, 1, Len(text1) - Len(tailingWhitespace))
  IN IF isWhitespaceOnly(text)
     THEN IF shouldTrimLeadingNewlines \/ shouldTrimTrailingNewlines THEN <<>>
          ELSE IF p.isLast THEN MapDedent(wsBreaks) ELSE wsBreaks
     ELSE leadBreaks \o getTextValueParts(text2) \o trailBreaks

PrintTextIgnore(text, p) ==
  LET whitespaceOnly == isWhitespaceOnly(text)
      lineBreaksCount == countNewLines(text)
      nextIsBlock == p.next \in {"BlockStatement", "ElementNode"}
      prevIsBlock == p.previous \in {"BlockStatement", "ElementNode"}
      lead1 == IF whitespaceOnly /\ lineBreaksCount # 0
               THEN Min(lineBreaksCount, NEWLINES_TO_PRESERVE_MAX)
               ELSE IF prevIsBlock THEN Max(countLeadingNewLines(text), 1)
               ELSE countLeadingNewLines(text)
      trail1 == IF whitespaceOnly /\ lineBreaksCount # 0 THEN 0
                ELSE IF nextIsBlock THEN Max(countTrailingNewLines(text), 1)
                ELSE countTrailingNewLines(text)
      trailingSpace1 == IF trail1 = 0 /\ p.next = "MustacheStatement" THEN <<" ">> ELSE <<>>
      leadingSpace1 == IF lead1 = 0 /\ p.previous = "MustacheStatement" THEN <<" ">> ELSE <<>>
      leadingLineBreaksCount == IF p.isFirst THEN 0 ELSE lead1
      leadingSpace == IF p.isFirst THEN <<>> ELSE leadingSpace1
      trailingLineBreaksCount == IF p.isLast THEN 0 ELSE trail1
      trailingSpace == IF p.isLast THEN <<>> ELSE trailingSpace1
      text1 == IF hasLeadingWhitespace(text) THEN leadingSpace \o trimStart(text) ELSE text
      text2 == IF hasTrailingWhitespace(text1) THEN trimEnd(text1) \o trailingSpace ELSE text1
  IN IF (p.isFirst \/ p.isLast) /\ whitespaceOnly
          /\ p.parent \in {"Block", "ElementNode", "Template"}
     THEN <<>>
     ELSE generateHardlines(leadingLineBreaksCount)
            \o getTextValueParts(text2)
            \o generateHardlines(trailingLineBreaksCount)

PrintTextNode(chars, p, opts) ==
  LET text == TextNodeText(chars)
  IN IF p.attrName # <<>>
     THEN IF p.attrName = <<"c", "l", "a", "s", "s">>
          THEN PrintClassText(text, p)
          ELSE Text(text)
     ELSE IF opts.htmlWhitespaceSensitivity # "ignore"
          THEN PrintTextSensitive(text, p)
          ELSE PrintTextIgnore(text, p)

(***************************************************************************)
(* The TextNode rule on one text run of a child list.                      *)
(***************************************************************************)
WsModes == {"css", "ignore"}
SiblingTypes == {"", "MustacheStatement", "BlockStatement", "ElementNode"}
ParentTypes == {"Template", "Block", "ElementNode"}
TextAlphabet == {"\n", " ", "a"}

ChildPath(parent, previous, next) ==
  [attrName |-> <<>>, parent |-> parent, previous |-> previous, next |-> next,
   isFirst |-> (previous = ""), isLast |-> (next = "")]

InitTextNode ==
  /\ source = <<>>
  /\ \E c \in SeqsUpTo(TextAlphabet, MaxTextLen) : node = [type |-> "TextNode", chars |-> c]
  /\ parsed = node
  /\ \E pa \in ParentTypes, pr \in SiblingTypes, nx \in SiblingTypes :
       path = ChildPath(pa, pr, nx)
  /\ \E m \in WsModes : options = [htmlWhitespaceSensitivity |-> m, singleQuote |-> FALSE]
  /\ doc = <<>>
  /\ outputs = <<>>
  /\ phase = "parsed"

PrintText ==
  /\ phase = "parsed"
  /\ node.type = "TextNode"
  /\ doc' = PrintTextNode(node.chars, path, options)
  /\ phase' = "printed"
  /\ UNCHANGED <<source, parsed, node, path, options, outputs>>

NextTextNode == PrintText

SpecTextNode == InitTextNode /\ [][NextTextNode]_vars

RECURSIVE LeadingHardlines(_)
LeadingHardlines(d) ==
  IF d = <<>> \/ ~IsHardline(Head(d)) THEN 0 ELSE 1 + LeadingHardlines(Tail(d))

RECURSIVE TrailingHardlines(_)
TrailingHardlines(d) ==
  IF d = <<>> \/ ~IsHardline(d[Len(d)]) THEN 0
  ELSE 1 + TrailingHardlines(SubSeq(d, 1, Len(d) - 1))

RECURSIVE NewlinesBefore(_)
\* the line breaks of s before its first character that is not whitespace
NewlinesBefore(s) ==
  IF s = <<>> \/ s[1] \notin {"\n", " "} THEN 0
  ELSE (IF s[1] = "\n" THEN 1 ELSE 0) + NewlinesBefore(Tail(s))

RECURSIVE Reverse(_)
Reverse(s) == IF s = <<>> THEN <<>> ELSE Reverse(Tail(s)) \o <<Head(s)>>

HasContent(s) == \E i \in 1..Len(s) : s[i] \notin {"\n", " "}

\* a boundary with n authored line breaks printed as `emitted` hardlines; `edge`:
\* the boundary is the start or the end of the child list
BoundaryCapped(n, emitted, edge) ==
  /\ emitted <= 2
  /\ n >= 3 => (emitted = 2 \/ (edge /\ emitted = 0))

\* C5: a boundary of a text run (leading, trailing, or the whole of a
\* whitespace-only run) with N >= 3 line breaks is printed with exactly 2
\* hardlines, unless it is discarded as the start or end of the child list, and
\* no boundary is ever printed with more than NEWLINES_TO_PRESERVE_MAX hardlines.
C5_BlankLineCap ==
  phase = "printed" =>
    IF HasContent(node.chars)
    THEN /\ BoundaryCapped(NewlinesBefore(node.chars), LeadingHardlines(doc), path.isFirst)
         /\ BoundaryCapped(NewlinesBefore(Reverse(node.chars)), TrailingHardlines(doc),
                           path.isLast)
    ELSE BoundaryCapped(Count(node.chars, "\n"), Len(SelectSeq(doc, IsHardline)),
                        path.isFirst \/ path.isLast)

C5_Witness ==
  /\ phase = "printed"
  /\ HasContent(node.chars)
  /\ NewlinesBefore(node.chars) >= 3
  /\ ~path.isFirst
  /\ LeadingHardlines(doc) = 2

(***************************************************************************)
(* Formatting a template of plain text twice.  The lexer cuts the source   *)
(* into content runs: a `{{` after one backslash is escaped and starts a   *)
(* content run that holds it, any other `{{` opens a mustache.  The        *)
(* sources of this model hold no `}`, so an opened mustache never closes   *)
(* and the parse fails.  Each content run becomes one TextNode.            *)
(***************************************************************************)
EscapeAlphabet == {"{", "_", "\\", "a"}

EmuStops(rest) ==
  \/ rest = <<>>
  \/ StartsWith(rest, Delim)
  \/ StartsWith(rest, <<"\\">> \o Delim)
  \/ StartsWith(rest, <<"\\", "\\">> \o Delim)

RECURSIVE EmuLength(_, _)
\* <emu>[^\x00]{2,}?/("{{"|"\\{{"|"\\\\{{"|<<EOF>>)
EmuLength(s, k) ==
  IF k >= Len(s) THEN Len(s)
  ELSE IF EmuStops(Drop(s, k)) THEN k
  ELSE EmuLength(s, k + 1)

RECURSIVE LexContent(_)
\* [ok, contents]: the content runs of s, or ok = FALSE when a mustache opens
LexContent(s) ==
  IF s = <<>> THEN [ok |-> TRUE, contents |-> <<>>]
  ELSE LET i == IndexOf(s, Delim, 1)
           prefix == SubSeq(s, 1, i - 1)
           rest == Drop(s, i - 1)
           content == SubSeq(prefix, 1, Len(prefix) - 1)
           k == EmuLength(rest, 2)
           more == LexContent(Drop(rest, k))
       IN IF i = 0 THEN [ok |-> TRUE, contents |-> <<s>>]
          ELSE IF EndsWith(prefix, <<"\\", "\\">>) \/ ~EndsWith(prefix, <<"\\">>)
          THEN [ok |-> FALSE, contents |-> <<>>]
          ELSE [ok |-> more.ok,
                contents |-> (IF content = <<>> THEN <<>> ELSE <<content>>)
                               \o <<SubSeq(rest, 1, k)>> \o more.contents]

TextNodes(contents) == [i \in 1..Len(contents) |-> [type |-> "TextNode", chars |-> contents[i]]]

SiblingType(body, i) == IF i < 1 \/ i > Len(body) THEN "" ELSE body[i].type

RECURSIVE PrintTextBody(_, _, _, _)
\* path.map(print, "body") over a body of TextNodes, from child i on
PrintTextBody(body, parent, opts, i) ==
  IF i > Len(body) THEN <<>>
  ELSE PrintTextNode(body[i].chars,
                     ChildPath(parent, SiblingType(body, i - 1), SiblingType(body, i + 1)),
                     opts)
         \o PrintTextBody(body, parent, opts, i + 1)

\* print, case "Template": the body, then a hardline
PrintTemplate(n, opts) == PrintTextBody(n.body, "Template", opts, 1) \o <<hardline>>

RECURSIVE Render(_)
\* the text of a Doc that fits the print width
Render(d) ==
  IF d = <<>> THEN <<>>
  ELSE (CASE Head(d).k = "text" -> Head(d).v
          [] IsHardline(Head(d)) -> <<"\n">>
          [] Head(d).k \in {"line", "dedent-line"} -> <<" ">>
          [] OTHER -> <<>>) \o Render(Tail(d))

InitEscape ==
  /\ source \in SeqsUpTo(EscapeAlphabet, MaxSourceLen)
  /\ node = <<>>
  /\ parsed = <<>>
  /\ path = <<>>
  /\ \E m \in WsModes : options = [htmlWhitespaceSensitivity |-> m, singleQuote |-> FALSE]
  /\ doc = <<>>
  /\ outputs = <<>>
  /\ phase = "source"

Parse ==
  /\ phase = "source"
  /\ LET r == LexContent(source)
     IN IF r.ok
        THEN /\ node' = [type |-> "Template", body |-> TextNodes(r.contents)]
             /\ phase' = "parsed"
        ELSE /\ node' = <<>>
             /\ phase' = "syntax-error"
  /\ parsed' = node'
  /\ UNCHANGED <<source, path, options, doc, outputs>>

PrintRoot ==
  /\ phase = "parsed"
  /\ doc' = PrintTemplate(node, options)
  /\ outputs' = Append(outputs, Render(doc'))
  /\ phase' = "printed"
  /\ UNCHANGED <<source, parsed, node, path, options>>

FormatAgain ==
  /\ phase = "printed"
  /\ Len(outputs) < 2
  /\ source' = outputs[Len(outputs)]
  /\ phase' = "source"
  /\ UNCHANGED <<parsed, node, path, options, doc, outputs>>

NextEscape == Parse \/ PrintRoot \/ FormatAgain

SpecEscape == InitEscape /\ [][NextEscape]_vars

\* C1: idempotence.  The output of formatting a valid input formats again, and
\* to the same text, in both whitespace-sensitivity modes.
C1_Idempotent ==
  /\ (phase = "syntax-error" => outputs = <<>>)
  /\ (Len(outputs) = 2 => outputs[2] = outputs[1])

(***************************************************************************)
(* The parser patch: blocks and partials met where the grammar has no      *)
(* place for them, and the printing of what they are turned into.          *)
(***************************************************************************)
Uncomment == <<"_", "_", "u", "n", "c", "o", "m", "m", "e", "n", "t", "_", "_">>

Open2 == <<"{", "{">>
Close2 == <<"}", "}">>

\* pieces a statement's source is put together from
BlockChunks ==
  { <<"x">>,
    <<"{", "{", "x", "}", "}">>,
    <<"{", "{", "{", "x", "}", "}", "}">>,
    <<"{", "_", "{", "x">>,
    Uncomment }

NameChunks == { <<"p">>, <<"_">>, Uncomment }

CommentChunks == { <<"x">>, Close2, Uncomment }

Bodies(chunks) == {Concat(cs) : cs \in SeqsUpTo(chunks, MaxChunks)}

BlockSources == {<<"{", "{", "#", "a", "}", "}">> \o b \o <<"{", "{", "/", "a", "}", "}">> :
                   b \in Bodies(BlockChunks)}

PartialSources == {<<"{", "{", ">", " ", "p">> \o b \o Close2 : b \in Bodies(NameChunks)}

\* an authored comment: its value, and its source with the strip markers and the
\* dashes it was written with (a value holding `}}` needs the dashes)
Comments ==
  {[value |-> b,
    text |-> Open2 \o (IF l THEN <<"~">> ELSE <<>>) \o <<"!">>
               \o (IF d THEN <<"-", "-">> ELSE <<>>) \o b
               \o (IF d THEN <<"-", "-">> ELSE <<>>)
               \o (IF r THEN <<"~">> ELSE <<>>) \o Close2] :
     b \in {c \in Bodies(CommentChunks) : c # <<>>}, l \in BOOLEAN, r \in BOOLEAN,
     d \in {TRUE}} \cup
  {[value |-> b, text |-> Open2 \o <<"!">> \o b \o Close2] :
     b \in {c \in Bodies(CommentChunks) : c # <<>> /\ ~Includes(c, Close2)}}

AttrPath(name, parent) ==
  [attrName |-> name, parent |-> parent, previous |-> "", next |-> "",
   isFirst |-> TRUE, isLast |-> TRUE]

Href == <<"h", "r", "e", "f">>

\* HandlebarsNodeVisitors.BlockStatement, the two states the patch adds
NormalizeBlock(sourceStr, state) ==
  IF state = "attributeValueDoubleQuoted"
  THEN [type |-> "TextNode", chars |-> ReplaceAll(sourceStr, Open2, Sentinel)]
  ELSE [type |-> "MustacheCommentStatement",
        value |-> Uncomment \o sourceStr \o Uncomment]

\* HandlebarsNodeVisitors.PartialStatement
NormalizePartial(sourceStr) ==
  [type |-> "MustacheCommentStatement", value |-> Uncomment \o sourceStr \o Uncomment]

CharAt(s, i) == IF i + 1 \in 1..Len(s) THEN s[i + 1] ELSE ""

\* print, case "MustacheCommentStatement"; the node spans originalText
PrintMustacheComment(n, originalText) ==
  LET uncomment == StartsWith(n.value, Uncomment) /\ EndsWith(n.value, Uncomment)
      start == 0
      end == Len(originalText)
      isLeftWhiteSpaceSensitive == CharAt(originalText, start + 2) = "~"
      isRightWhitespaceSensitive == end >= 3 /\ CharAt(originalText, end - 3) = "~"
      dashes == IF Includes(n.value, Close2) THEN <<"-", "-">> ELSE <<>>
  IN IF uncomment
     THEN Text(ReplaceAll(n.value, Uncomment, <<>>))
     ELSE Text(Open2)
            \o (IF isLeftWhiteSpaceSensitive THEN Text(<<"~">>) ELSE <<>>)
            \o Text(<<"!">>) \o Text(dashes) \o Text(n.value) \o Text(dashes)
            \o (IF isRightWhitespaceSensitive THEN Text(<<"~">>) ELSE <<>>)
            \o Text(Close2)

InitNormalizer ==
  /\ \/ /\ source \in BlockSources
        /\ \E st \in {"attributeValueDoubleQuoted", "beforeAttributeName", "afterAttributeName"} :
             path = [statement |-> "BlockStatement", state |-> st]
     \/ /\ source \in PartialSources
        /\ path = [statement |-> "PartialStatement", state |-> "data"]
     \/ \E c \in Comments :
          /\ source = c.text
          /\ path = [statement |-> "MustacheCommentStatement", state |-> "data", value |-> c.value]
  /\ node = <<>>
  /\ parsed = <<>>
  /\ options = [htmlWhitespaceSensitivity |-> "css", singleQuote |-> FALSE]
  /\ doc = <<>>
  /\ outputs = <<>>
  /\ phase = "source"

VisitBlockStatement ==
  /\ phase = "source"
  /\ path.statement = "BlockStatement"
  /\ node' = NormalizeBlock(source, path.state)
  /\ parsed' = node'
  /\ phase' = "parsed"
  /\ UNCHANGED <<source, path, options, doc, outputs>>

VisitPartialStatement ==
  /\ phase = "source"
  /\ path.statement = "PartialStatement"
  /\ node' = NormalizePartial(source)
  /\ parsed' = node'
  /\ phase' = "parsed"
  /\ UNCHANGED <<source, path, options, doc, outputs>>

VisitMustacheCommentStatement ==
  /\ phase = "source"
  /\ path.statement = "MustacheCommentStatement"
  /\ node' = [type |-> "MustacheCommentStatement", value |-> path.value]
  /\ parsed' = node'
  /\ phase' = "parsed"
  /\ UNCHANGED <<source, path, options, doc, outputs>>

PrintNormalized ==
  /\ phase = "parsed"
  /\ doc' = IF node.type = "TextNode"
            THEN PrintTextNode(node.chars, AttrPath(Href, "ConcatStatement"), options)
            ELSE PrintMustacheComment(node, source)
  /\ outputs' = Append(outputs, Render(doc'))
  /\ phase' = "printed"
  /\ UNCHANGED <<source, parsed, node, path, options>>

NextNormalizer ==
  VisitBlockStatement \/ VisitPartialStatement \/ VisitMustacheCommentStatement
    \/ PrintNormalized

SpecNormalizer == InitNormalizer /\ [][NextNormalizer]_vars

\* C7: sentinel round-trip.  The source S of a block inside a double-quoted
\* attribute value becomes a TextNode whose chars are S with every `{{` turned
\* into `{_{`, and the TextNode rule prints exactly S again.
C7_SentinelRoundTrip ==
  (phase = "printed" /\ node.type = "TextNode") =>
     /\ node.chars = ReplaceAll(source, Open2, Sentinel)
     /\ outputs[1] = source

Wrapped(value) == StartsWith(value, Uncomment) /\ EndsWith(value, Uncomment)

\* C8: a block or partial wrapped as `__uncomment__` + S + `__uncomment__` is
\* printed as exactly S, and a comment whose value is not wrapped is printed
\* as an ordinary `{{!...}}` comment.
C8_VerbatimComment ==
  (phase = "printed" /\ node.type = "MustacheCommentStatement") =>
     /\ path.statement # "MustacheCommentStatement" => outputs[1] = source
     /\ ~Wrapped(node.value) =>
          /\ StartsWith(outputs[1], <<"{", "{", "!">>) \/ StartsWith(outputs[1], <<"{", "{", "~", "!">>)
          /\ EndsWith(outputs[1], Close2)
          /\ Includes(outputs[1], node.value)

(***************************************************************************)
(* ElementNode print helpers: the starting tag.                            *)
(***************************************************************************)
locStart(n) == n.start

RECURSIVE InsertByLoc(_, _)
\* n put into the sorted array after every element that does not start later
InsertByLoc(sorted, n) ==
  IF sorted = <<>> THEN <<n>>
  ELSE IF locStart(Head(sorted)) <= locStart(n)
       THEN <<Head(sorted)>> \o InsertByLoc(Tail(sorted), n)
       ELSE <<n>> \o sorted

\* the array left as flatMap built it
KeepOrder(arr) == arr

RECURSIVE SortByLoc(_)
\* Array.prototype.sort(sortByLoc): stable, ascending locStart
SortByLoc(arr) ==
  IF arr = <<>> THEN <<>>
  ELSE InsertByLoc(SortByLoc(SubSeq(arr, 1, Len(arr) - 1)), arr[Len(arr)])

RECURSIVE ArrayIndexOf(_, _, _)
\* Array.prototype.indexOf from index i (1-based here; 0 when absent, where
\* JavaScript gives -1)
ArrayIndexOf(arr, x, i) ==
  IF i > Len(arr) THEN 0
  ELSE IF arr[i] = x THEN i
  ELSE ArrayIndexOf(arr, x, i + 1)

\* the array with the element at index (the last one when index is 0, as
\* splice(-1, 1, x) does) replaced by x
Splice1(arr, index, x) ==
  IF arr = <<>> THEN <<x>>
  ELSE [arr EXCEPT ![IF index = 0 THEN Len(arr) ELSE index] = x]

\* what print() gives for an attribute, a modifier or a comment of the tag
PrintedAttribute(n) == [k |-> "printed", v |-> <<>>, of |-> n.id, at |-> n.type]

RECURSIVE ReplaceEach(_, _)
\* path.each over one list: each node's place in the array takes [line, print()]
ReplaceEach(attributes, nodes) ==
  IF nodes = <<>> THEN attributes
  ELSE ReplaceEach(
         Splice1(attributes, ArrayIndexOf(attributes, <<Head(nodes)>>, 1),
                 <<line, PrintedAttribute(Head(nodes))>>),
         Tail(nodes))

printBlockParams(n) ==
  Text(<<"a", "s", " ", "|">>) \o Text(JoinWith(n.blockParams, <<" ">>)) \o Text(<<"|">>)

\* an end marker that closes the tag with a slash
printStartingTagEndMarkerSlash == <<Tok("softline-ifBreak", <<>>), Tok("text", <<"/", ">">>)>>

\* ifBreak([softline, ">"], ">")
printStartingTagEndMarker == <<Tok("softline-ifBreak", <<>>), Tok("text", <<">">>)>>

printStartingTag(n) ==
  LET sorted == SortByLoc(n.attributes \o n.modifiers \o n.comments)
      \* an array element is <<node>> until it is replaced by [line, print()]
      merged == [i \in 1..Len(sorted) |-> <<sorted[i]>>]
      attributes == ReplaceEach(ReplaceEach(ReplaceEach(merged, n.attributes),
                                            n.modifiers), n.comments)
  IN Text(<<"<">>) \o Text(n.tag) \o Concat(attributes)
       \o (IF n.blockParams # <<>> THEN <<line>> \o printBlockParams(n) ELSE <<>>)
       \o printStartingTagEndMarker

TagNodeTypes == {"AttrNode", "ElementModifierStatement", "MustacheCommentStatement"}

Div == <<"d", "i", "v">>

\* the nodes of kind t among the tag's nodes, in source order; the i-th node of
\* the tag starts at offset 5 + 4 * i
TagNodesOfType(kinds, t) ==
  SelectSeq([i \in 1..Len(kinds) |-> [type |-> kinds[i], id |-> i, start |-> 5 + 4 * i]],
            LAMBDA n : n.type = t)

InitStartingTag ==
  /\ source = <<>>
  /\ \E kinds \in SeqsUpTo(TagNodeTypes, MaxAttrs), bp \in {<<>>, <<<<"x">>>>} :
       node = [type |-> "ElementNode", tag |-> Div,
               attributes |-> TagNodesOfType(kinds, "AttrNode"),
               modifiers |-> TagNodesOfType(kinds, "ElementModifierStatement"),
               comments |-> TagNodesOfType(kinds, "MustacheCommentStatement"),
               blockParams |-> bp]
  /\ parsed = node
  /\ path = ChildPath("Template", "", "")
  /\ options = [htmlWhitespaceSensitivity |-> "css", singleQuote |-> FALSE]
  /\ doc = <<>>
  /\ outputs = <<>>
  /\ phase = "parsed"

PrintTag ==
  /\ phase = "parsed"
  /\ doc' = printStartingTag(node)
  /\ phase' = "printed"
  /\ UNCHANGED <<source, parsed, node, path, options, outputs>>

NextStartingTag == PrintTag

SpecStartingTag == InitStartingTag /\ [][NextStartingTag]_vars

TagNodes(n) == n.attributes \o n.modifiers \o n.comments

PrintedOnly(d) == SelectSeq(d, LAMBDA t : t.k = "printed")

StartOfId(n, id) ==
  LET all == TagNodes(n)
  IN all[CHOOSE i \in 1..Len(all) : all[i].id = id].start

\* C2: the starting tag holds the printed form of every attribute, modifier and
\* comment exactly once, each of the node's own type, in ascending source start
\* offset, and the block parameters come after all of them.
C2_AttributeOrder ==
  phase = "printed" =>
    LET printed == PrintedOnly(doc)
        all == TagNodes(node)
    IN /\ Len(printed) = Len(all)
       /\ \A i \in 1..Len(all) :
            \E j \in 1..Len(printed) :
              printed[j].of = all[i].id /\ printed[j].at = all[i].type
       /\ \A i, j \in 1..Len(printed) :
            i < j => StartOfId(node, printed[i].of) < StartOfId(node, printed[j].of)
       /\ \A i \in 1..Len(doc) :
            doc[i].k = "printed" => i > 1 /\ doc[i - 1] = line
       /\ node.blockParams # <<>> =>
            \A i, j \in 1..Len(doc) :
              (doc[i].k = "printed" /\ doc[j].v = <<"a", "s", " ", "|">>) => i < j

\* an element written as [attr, comment, modifier, attr]
C2_Witness ==
  /\ phase = "printed"
  /\ Len(node.attributes) = 2 /\ Len(node.modifiers) = 1 /\ Len(node.comments) = 1
  /\ [i \in 1..4 |-> PrintedOnly(doc)[i].at] =
       <<"AttrNode", "MustacheCommentStatement", "ElementModifierStatement", "AttrNode">>
  /\ node.blockParams # <<>>

(***************************************************************************)
(* BlockStatement print helpers.  The AST is a heap: a function from node   *)
(* ids to node records, child lists hold ids, and two nodes are the same   *)
(* object when their ids are equal.  A print helper that recurses returns  *)
(* [doc, heap]: the Doc it printed and the heap as the print left it.      *)
(***************************************************************************)
Mark(v, id, at) == [k |-> "text", v |-> v, of |-> id, at |-> at]

\* strip ? "~" : "", for the boundary `at` of block id
Strip(flag, id, at) == IF flag THEN <<Mark(<<"~">>, id, at)>> ELSE <<>>

\* a BlockStatement has neither `escaped` nor `strip`
printOpeningMustache(n) == Text(Open2)

printClosingMustache(n) == Text(Close2)

printOpeningBlockOpeningMustache(h, id) ==
  printOpeningMustache(h[id]) \o Strip(h[id].openStrip.open, id, "openStrip.open")
    \o <<Mark(<<"#">>, id, "open")>>

printOpeningBlockClosingMustache(h, id) ==
  Strip(h[id].openStrip.close, id, "openStrip.close") \o printClosingMustache(h[id])

printClosingBlockOpeningMustache(h, id) ==
  printOpeningMustache(h[id]) \o Strip(h[id].closeStrip.open, id, "closeStrip.open")
    \o <<Mark(<<"/">>, id, "close")>>

printClosingBlockClosingMustache(h, id) ==
  Strip(h[id].closeStrip.close, id, "closeStrip.close") \o printClosingMustache(h[id])

printInverseBlockOpeningMustache(h, id) ==
  printOpeningMustache(h[id]) \o Strip(h[id].inverseStrip.open, id, "inverseStrip.open")

printInverseBlockClosingMustache(h, id) ==
  Strip(h[id].inverseStrip.close, id, "inverseStrip.close") \o printClosingMustache(h[id])

\* print, case "PathExpression"
PrintPath(pathNode) == Text(pathNode.original)

\* join(line, path.map(print, "params"))
printParams(n) == JoinLine(n.params)

printOpenBlock(h, id) ==
  printOpeningBlockOpeningMustache(h, id)
    \o PrintPath(h[id].path)
    \o (IF h[id].params # <<>> THEN <<line>> \o printParams(h[id]) ELSE <<>>)
    \o <<softline>>
    \o printOpeningBlockClosingMustache(h, id)

printElseBlock(h, id, opts) ==
  (IF opts.htmlWhitespaceSensitivity = "ignore" THEN <<hardline>> ELSE <<>>)
    \o printInverseBlockOpeningMustache(h, id)
    \o <<Mark(<<"e", "l", "s", "e">>, id, "else")>>
    \o printInverseBlockClosingMustache(h, id)

\* path.parts[0]; undefined (here <<>>) when the path has no parts
Parts0(pathNode) == IF pathNode.parts = <<>> THEN <<>> ELSE pathNode.parts[1]

\* gp: the id of path.grandparent when that is a BlockStatement, else 0
isElseIfLike(h, id, gp) ==
  /\ gp # 0
  /\ h[gp].hasInverse
  /\ Len(h[gp].inverse) = 1
  /\ h[gp].inverse[1] = id
  /\ Parts0(h[h[gp].inverse[1]].path) = Parts0(h[gp].path)

printElseIfLikeBlock(h, id, gp) ==
  printInverseBlockOpeningMustache(h, gp)
    \o <<Mark(<<"e", "l", "s", "e">>, id, "elseChain"), Tok("text", <<" ">>),
         Mark(Parts0(h[h[gp].inverse[1]].path), id, "elseChainName")>>
    \o <<line>> \o printParams(h[id])
    \o <<softline>>
    \o printInverseBlockClosingMustache(h, gp)

isWhitespaceNode(n) == n.type = "TextNode" /\ isWhitespaceOnly(n.chars)

blockStatementHasOnlyWhitespaceInProgram(h, id) ==
  /\ h[id].type = "BlockStatement"
  /\ \A i \in 1..Len(h[id].program) : isWhitespaceNode(h[h[id].program[i]])

blockStatementHasElse(h, id) == h[id].type = "BlockStatement" /\ h[id].hasInverse

blockStatementHasElseIfLike(h, id) ==
  /\ blockStatementHasElse(h, id)
  /\ Len(h[id].inverse) = 1
  /\ h[h[id].inverse[1]].type = "BlockStatement"
  /\ Parts0(h[h[id].inverse[1]].path) = Parts0(h[id].path)

PartialMarker == <<">", " ">>

\* the PartialBlockStatement path hack of printCloseBlock: the heap after it
ClosePathHack(h, id) ==
  IF StartsWith(h[id].path.original, PartialMarker)
  THEN LET original == ReplaceAll(h[id].path.original, PartialMarker, <<>>)
       IN [h EXCEPT ![id].path = [original |-> original, parts |-> <<original>>]]
  ELSE h

printCloseBlock(h, id, opts) ==
  LET h2 == ClosePathHack(h, id)
      escape == IF opts.htmlWhitespaceSensitivity # "ignore" THEN <<>>
                ELSE IF blockStatementHasOnlyWhitespaceInProgram(h2, id) THEN <<softline>>
                ELSE <<hardline>>
  IN [doc |-> escape \o printClosingBlockOpeningMustache(h2, id)
                \o PrintPath(h2[id].path)
                \o printClosingBlockClosingMustache(h2, id),
      heap |-> h2]

HeapType(h, body, i) == IF i < 1 \/ i > Len(body) THEN "" ELSE h[body[i]].type

RECURSIVE PrintBody(_, _, _, _, _, _)
RECURSIVE PrintBlockStatement(_, _, _, _)

\* print("program"), indented
printProgram(h, id, opts) ==
  IF blockStatementHasOnlyWhitespaceInProgram(h, id) THEN [doc |-> <<>>, heap |-> h]
  ELSE LET program == PrintBody(h, id, "Block", h[id].program, 1, opts)
       IN [doc |-> (IF opts.htmlWhitespaceSensitivity = "ignore" THEN <<hardline>> ELSE <<>>)
                     \o program.doc,
           heap |-> program.heap]

\* print("inverse") first; only then is the `{{else}}` decided, on the heap as
\* the printing of the inverse left it
printInverse(h, id, opts) ==
  LET inverse == IF h[id].hasInverse
                 THEN PrintBody(h, id, "Block", h[id].inverse, 1, opts)
                 ELSE [doc |-> <<>>, heap |-> h]
      printed == (IF opts.htmlWhitespaceSensitivity = "ignore" THEN <<hardline>> ELSE <<>>)
                   \o inverse.doc
  IN [doc |-> IF blockStatementHasElseIfLike(inverse.heap, id) THEN printed
              ELSE IF blockStatementHasElse(inverse.heap, id)
              THEN printElseBlock(inverse.heap, id, opts) \o printed
              ELSE <<>>,
      heap |-> inverse.heap]

\* print, case "BlockStatement"
PrintBlockStatement(h, id, gp, opts) ==
  IF isElseIfLike(h, id, gp)
  THEN LET head == printElseIfLikeBlock(h, id, gp)
           program == printProgram(h, id, opts)
           inverse == printInverse(program.heap, id, opts)
       IN [doc |-> head \o program.doc \o inverse.doc, heap |-> inverse.heap]
  ELSE LET head == printOpenBlock(h, id)
           program == printProgram(h, id, opts)
           inverse == printInverse(program.heap, id, opts)
           close == printCloseBlock(inverse.heap, id, opts)
       IN [doc |-> head \o program.doc \o inverse.doc \o close.doc, heap |-> close.heap]

\* path.map(print, "body") from child i on; owner is the BlockStatement the body
\* belongs to (the children's grandparent), 0 for the Template
PrintBody(h, owner, parent, body, i, opts) ==
  IF i > Len(body) THEN [doc |-> <<>>, heap |-> h]
  ELSE LET child == h[body[i]]
           first == IF child.type = "TextNode"
                    THEN [doc |-> PrintTextNode(child.chars,
                                    ChildPath(parent, HeapType(h, body, i - 1),
                                              HeapType(h, body, i + 1)), opts),
                          heap |-> h]
                    ELSE PrintBlockStatement(h, body[i], owner, opts)
           rest == PrintBody(first.heap, owner, parent, body, i + 1, opts)
       IN [doc |-> first.doc \o rest.doc, heap |-> rest.heap]

\* print, case "Template", over a heap: the body, then a hardline
PrintTemplateHeap(h, body, opts) ==
  LET g == PrintBody(h, 0, "Template", body, 1, opts)
  IN [doc |-> g.doc \o <<hardline>>, heap |-> g.heap]

(***************************************************************************)
(* Trees of nested blocks.  Block i of a chain holds block i + 1 in its    *)
(* inverse or in its program; ids 1..n are the blocks, n + i is the text   *)
(* of block i's program and 2n + i the text of its inverse.                *)
(***************************************************************************)
MaxDepth == 3

NoStrip == [open |-> FALSE, close |-> FALSE]

NoStrips == [openStrip |-> NoStrip, inverseStrip |-> NoStrip, closeStrip |-> NoStrip]

NoPath == [original |-> <<>>, parts |-> <<>>]

TextNodeOf(chars) ==
  [type |-> "TextNode", chars |-> chars, path |-> NoPath, params |-> <<>>,
   program |-> <<>>, hasInverse |-> FALSE, inverse |-> <<>>,
   openStrip |-> NoStrip, inverseStrip |-> NoStrip, closeStrip |-> NoStrip]

BlockNodeOf(head, params, program, hasInverse, inverse, strips) ==
  [type |-> head.type, chars |-> <<>>, path |-> head.path, params |-> params,
   program |-> program, hasInverse |-> hasInverse, inverse |-> inverse,
   openStrip |-> strips.openStrip, inverseStrip |-> strips.inverseStrip,
   closeStrip |-> strips.closeStrip]

\* paths as the Handlebars parser delivers them: `if`, `a.b`, `a.c`
PathIf == [original |-> <<"i", "f">>, parts |-> << <<"i", "f">> >>]

PathAB == [original |-> <<"a", ".", "b">>, parts |-> << <<"a">>, <<"b">> >>]

PathAC == [original |-> <<"a", ".", "c">>, parts |-> << <<"a">>, <<"c">> >>]

\* `{{#if ...}}`, `{{#a.b ...}}`, `{{#a.c ...}}` and the partial block `{{#> if ...}}`
Heads ==
  {[type |-> "BlockStatement", path |-> p] : p \in {PathIf, PathAB, PathAC}}
    \cup {[type |-> "PartialBlockStatement", path |-> PathIf]}

ContKinds == {"else-block", "else-text-block", "program-block"}

EndKinds == {"leaf", "else-text"}

Shapes ==
  {s \in SeqsUpTo(ContKinds \cup EndKinds, MaxDepth) :
     /\ s # <<>>
     /\ s[Len(s)] \in EndKinds
     /\ \A i \in 1..(Len(s) - 1) : s[i] \in ContKinds}

Tree(shape, heads, strips, chars, params) ==
  LET n == Len(shape)
  IN [id \in 1..(3 * n) |->
        IF id > n THEN TextNodeOf(chars)
        ELSE BlockNodeOf(heads[id], params,
               IF shape[id] = "program-block" THEN <<id + 1>> ELSE <<n + id>>,
               shape[id] # "leaf",
               CASE shape[id] = "leaf" -> <<>>
                 [] shape[id] = "else-block" -> <<id + 1>>
                 [] shape[id] = "else-text-block" -> <<2 * n + id, id + 1>>
                 [] OTHER -> <<2 * n + id>>,
               strips[id])]

BodyTexts == {<<"x">>, <<" ">>}

ParamLists == {<<>>, << <<"p">> >>}

\* the patched Normalizer's PartialBlockStatement visitor on one node
NormalizePartialBlock(n) ==
  LET parts == [n.path.parts EXCEPT ![1] = PartialMarker \o n.path.parts[1]]
  IN [n EXCEPT !.type = "BlockStatement",
               !.path = [original |-> JoinWith(parts, <<"/">>), parts |-> parts]]

InitBlock ==
  /\ source = <<>>
  /\ \E shape \in Shapes, chars \in BodyTexts, params \in ParamLists :
       \E heads \in [1..Len(shape) -> Heads] :
         node = Tree(shape, heads, [i \in 1..Len(shape) |-> NoStrips], chars, params)
  /\ parsed = <<>>
  /\ path = [body |-> <<1>>]
  /\ \E m \in WsModes : options = [htmlWhitespaceSensitivity |-> m, singleQuote |-> FALSE]
  /\ doc = <<>>
  /\ outputs = <<>>
  /\ phase = "handlebars"

\* the Normalizer walks the Handlebars tree; partial blocks become blocks
VisitPartialBlockStatement ==
  /\ phase = "handlebars"
  /\ node' = [id \in DOMAIN node |->
                IF node[id].type = "PartialBlockStatement"
                THEN NormalizePartialBlock(node[id]) ELSE node[id]]
  /\ parsed' = node'
  /\ phase' = "parsed"
  /\ UNCHANGED <<source, path, options, doc, outputs>>

\* print(root): the Doc, and the tree as the print pass leaves it
PrintBlocks ==
  /\ phase = "parsed"
  /\ LET printed == PrintTemplateHeap(node, path.body, options)
     IN /\ doc' = printed.doc
        /\ node' = printed.heap
  /\ outputs' = Append(outputs, Render(doc'))
  /\ phase' = "printed"
  /\ UNCHANGED <<source, parsed, path, options>>

NextBlock == VisitPartialBlockStatement \/ PrintBlocks

SpecBlock == InitBlock /\ [][NextBlock]_vars

BlockIds(h) == {id \in DOMAIN h : h[id].type = "BlockStatement"}

Emits(id, at) == \E i \in 1..Len(doc) : doc[i].of = id /\ doc[i].at = at

\* block id has no `{{#...}}` and no `{{/...}}` of its own, only `{{else ...}}`
Chained(id) == Emits(id, "elseChain") /\ ~Emits(id, "open") /\ ~Emits(id, "close")

\* block id is a complete nested block
Complete(id) == Emits(id, "open") /\ Emits(id, "close") /\ ~Emits(id, "elseChain")

\* block id is the sole content of the else-branch of a block of the same
\* helper name
SoleElseOfSameHelper(h, id) ==
  \E a \in BlockIds(h) :
    /\ h[a].hasInverse
    /\ h[a].inverse = <<id>>
    /\ h[a].path.original = h[id].path.original

\* C3: else-if collapsing.  A block is printed in the chained form exactly when
\* it is the sole content of the else-branch of a block with the same helper
\* name, the `{{else ...}}` token then carries the block's own helper name, and
\* every other block is printed as a complete nested block.
C3_ElseIfCollapsing ==
  phase = "printed" =>
    \A id \in BlockIds(parsed) :
      /\ Chained(id) <=> SoleElseOfSameHelper(parsed, id)
      /\ ~SoleElseOfSameHelper(parsed, id) => Complete(id)
      /\ Chained(id) =>
           \A i \in 1..Len(doc) :
             (doc[i].of = id /\ doc[i].at = "elseChainName")
               => doc[i].v = parsed[id].path.original

\* C9: the AST is read-only for the printer.  The tree after print(root) is
\* the tree the Normalizer delivered, every path's original and parts included.
C9_AstReadOnly == phase = "printed" => node = parsed

(***************************************************************************)
(* Strip flags: trees of `if` blocks carrying every combination of the six *)
(* flags.  A block without an inverse has no inverseStrip flag set.        *)
(***************************************************************************)
MaxStripDepth == 2

StripFlags == [open : BOOLEAN, close : BOOLEAN]

StripsOf(kind) ==
  {st \in [openStrip : StripFlags, inverseStrip : StripFlags, closeStrip : StripFlags] :
     kind = "leaf" => st.inverseStrip = NoStrip}

IfBlock == [type |-> "BlockStatement", path |-> PathIf]

InitStrip ==
  /\ source = <<>>
  /\ \E shape \in {s \in Shapes : Len(s) <= MaxStripDepth} :
       \E strips \in [1..Len(shape) -> StripsOf("else-text")] :
         /\ \A i \in 1..Len(shape) : strips[i] \in StripsOf(shape[i])
         /\ node = Tree(shape, [i \in 1..Len(shape) |-> IfBlock], strips,
                        <<"x">>, << <<"p">> >>)
  /\ parsed = <<>>
  /\ path = [body |-> <<1>>]
  /\ \E m \in WsModes : options = [htmlWhitespaceSensitivity |-> m, singleQuote |-> FALSE]
  /\ doc = <<>>
  /\ outputs = <<>>
  /\ phase = "handlebars"

SpecStrip == InitStrip /\ [][NextBlock]_vars

StripPositions ==
  {<<"openStrip", "open">>, <<"openStrip", "close">>, <<"inverseStrip", "open">>,
   <<"inverseStrip", "close">>, <<"closeStrip", "open">>, <<"closeStrip", "close">>}

PositionName(pos) ==
  CASE pos = <<"openStrip", "open">> -> "openStrip.open"
    [] pos = <<"openStrip", "close">> -> "openStrip.close"
    [] pos = <<"inverseStrip", "open">> -> "inverseStrip.open"
    [] pos = <<"inverseStrip", "close">> -> "inverseStrip.close"
    [] pos = <<"closeStrip", "open">> -> "closeStrip.open"
    [] pos = <<"closeStrip", "close">> -> "closeStrip.close"

\* the flag of block n at a position
FlagAt(n, pos) ==
  CASE pos[1] = "openStrip" -> IF pos[2] = "open" THEN n.openStrip.open ELSE n.openStrip.close
    [] pos[1] = "inverseStrip" ->
         IF pos[2] = "open" THEN n.inverseStrip.open ELSE n.inverseStrip.close
    [] pos[1] = "closeStrip" ->
         IF pos[2] = "open" THEN n.closeStrip.open ELSE n.closeStrip.close

\* the block whose closing tag ends the chain block id is printed in
RECURSIVE ChainHead(_)
ChainHead(id) == IF id > 1 /\ Chained(id) THEN ChainHead(id - 1) ELSE id

\* a `~` stands at the token that takes the position of block id in the output:
\* a chained block opens with the `{{else ...}}` token of the block around it
\* and closes with the closing tag of the head of its chain
TildeAt(id, pos) ==
  IF id > 1 /\ Chained(id) /\ pos[1] = "openStrip"
  THEN Emits(id - 1, PositionName(<<"inverseStrip", pos[2]>>))
  ELSE IF id > 1 /\ Chained(id) /\ pos[1] = "closeStrip"
  THEN Emits(ChainHead(id), PositionName(pos))
  ELSE Emits(id, PositionName(pos))

\* C4: strip-marker fidelity.  For every block and each of its six token
\* positions, a `~` is printed at that position exactly when the flag the node
\* records for it is set.
C4_StripFidelity ==
  phase = "printed" =>
    \A id \in BlockIds(parsed) : \A pos \in StripPositions :
      TildeAt(id, pos) <=> FlagAt(parsed[id], pos)

(***************************************************************************)
(* AttrNode: the quote chosen for a value, and the value inside it.        *)
(***************************************************************************)
DoubleQuote == "\""

SingleQuote == "'"

CountChar(s, c) == Cardinality({i \in 1..Len(s) : s[i] = c})

\* utils/get-preferred-quote.js: the quote that needs fewer escapes, the
\* configured one on a tie
getPreferredQuote(text, preferSingleQuote) ==
  LET preferred == IF preferSingleQuote THEN SingleQuote ELSE DoubleQuote
      alternate == IF preferSingleQuote THEN DoubleQuote ELSE SingleQuote
  IN IF CountChar(text, preferred) > CountChar(text, alternate)
     THEN alternate ELSE preferred

\* value.parts.map((part) => (part.type === "TextNode" ? part.chars : "")).join("")
LiteralText(value) ==
  IF value.type = "TextNode" THEN value.chars
  ELSE Concat([i \in 1..Len(value.parts) |->
                 IF value.parts[i].type = "TextNode" THEN value.parts[i].chars ELSE <<>>])

PartType(parts, i) == IF i < 1 \/ i > Len(parts) THEN "" ELSE parts[i].type

\* print, case "ConcatStatement", for parts that are TextNodes
RECURSIVE PrintParts(_, _, _, _)
PrintParts(parts, i, name, opts) ==
  IF i > Len(parts) THEN <<>>
  ELSE PrintTextNode(parts[i].chars,
         [attrName |-> name, parent |-> "ConcatStatement",
          previous |-> PartType(parts, i - 1), next |-> PartType(parts, i + 1),
          isFirst |-> (i = 1), isLast |-> (i = Len(parts))], opts)
       \o PrintParts(parts, i + 1, name, opts)

\* print, case "AttrNode"
PrintAttrNode(n, opts) ==
  LET value == n.value
      isText == value.type = "TextNode"
      isEmptyText == isText /\ value.chars = <<>>
      quote == IF isText THEN getPreferredQuote(value.chars, opts.singleQuote)
               ELSE IF value.type = "ConcatStatement"
               THEN getPreferredQuote(LiteralText(value), opts.singleQuote)
               ELSE ""
      valueDoc == IF isText THEN PrintTextNode(value.chars, AttrPath(n.name, "AttrNode"), opts)
                  ELSE PrintParts(value.parts, 1, n.name, opts)
  IN IF isEmptyText /\ value.zeroWidth THEN Text(n.name)
     ELSE Text(n.name) \o Text(<<"=">>) \o <<Mark(<<quote>>, 0, "quote")>>
            \o valueDoc \o <<Mark(<<quote>>, 0, "quote")>>

ClassName == <<"c", "l", "a", "s", "s">>

AttrNames == {Href, ClassName}

AttrTextNode(chars, zeroWidth) ==
  [type |-> "TextNode", chars |-> chars, zeroWidth |-> zeroWidth, parts |-> <<>>]

\* what stands between double quotes, and what stands between single quotes
DoubleQuotedValues == SeqsUpTo({SingleQuote, "a"}, MaxValueLen)

SingleQuotedValues == SeqsUpTo({DoubleQuote, "a"}, MaxValueLen)

\* the body of a block written inside a double-quoted value
QuotedBodies == SeqsUpTo({DoubleQuote, SingleQuote, "b"}, MaxValueLen)

InitAttr ==
  /\ \E name \in AttrNames :
       \/ /\ \E chars \in DoubleQuotedValues \cup SingleQuotedValues :
               node = [type |-> "AttrNode", name |-> name,
                       value |-> AttrTextNode(chars, FALSE)]
          /\ source = <<>>
          /\ path = [state |-> "afterAttributeValueQuoted"]
       \/ /\ node = [type |-> "AttrNode", name |-> name, value |-> AttrTextNode(<<>>, TRUE)]
          /\ source = <<>>
          /\ path = [state |-> "afterAttributeName"]
       \/ /\ \E chars \in DoubleQuotedValues :
               node = [type |-> "AttrNode", name |-> name,
                       value |-> [type |-> "ConcatStatement", chars |-> <<>>,
                                  zeroWidth |-> FALSE,
                                  parts |-> IF chars = <<>> THEN <<>>
                                            ELSE <<AttrTextNode(chars, FALSE)>>]]
          /\ \E body \in QuotedBodies :
               source = <<"{", "{", "#", "a", "}", "}">> \o body
                          \o <<"{", "{", "/", "a", "}", "}">>
          /\ path = [state |-> "attributeValueDoubleQuoted"]
  /\ parsed = <<>>
  /\ \E sq \in BOOLEAN : options = [htmlWhitespaceSensitivity |-> "css", singleQuote |-> sq]
  /\ doc = <<>>
  /\ outputs = <<>>
  /\ phase = "source"

\* HandlebarsNodeVisitors.BlockStatement in a double-quoted value: the block's
\* source becomes one more text part of the value
AppendDynamicAttributeValuePart ==
  /\ phase = "source"
  /\ path.state = "attributeValueDoubleQuoted"
  /\ LET sourceText == NormalizeBlock(source, path.state)
     IN node' = [node EXCEPT !.value.parts =
                   Append(@, AttrTextNode(sourceText.chars, FALSE))]
  /\ parsed' = node'
  /\ phase' = "parsed"
  /\ UNCHANGED <<source, path, options, doc, outputs>>

\* an attribute without a block in its value is finished as the tokenizer read it
FinishAttributeValue ==
  /\ phase = "source"
  /\ path.state # "attributeValueDoubleQuoted"
  /\ parsed' = node
  /\ phase' = "parsed"
  /\ UNCHANGED <<source, node, path, options, doc, outputs>>

PrintAttr ==
  /\ phase = "parsed"
  /\ doc' = PrintAttrNode(node, options)
  /\ outputs' = Append(outputs, Render(doc'))
  /\ phase' = "printed"
  /\ UNCHANGED <<source, parsed, node, path, options>>

NextAttr == AppendDynamicAttributeValuePart \/ FinishAttributeValue \/ PrintAttr

SpecAttr == InitAttr /\ [][NextAttr]_vars

\* the quote the value is printed between; "" when the attribute has no value
Delimiter ==
  IF \E i \in 1..Len(doc) : doc[i].at = "quote"
  THEN doc[CHOOSE i \in 1..Len(doc) : doc[i].at = "quote"].v[1]
  ELSE ""

\* what is printed between the two delimiters
PrintedValue ==
  LET first == CHOOSE i \in 1..Len(doc) :
                 doc[i].at = "quote" /\ \A j \in 1..(i - 1) : doc[j].at # "quote"
      last == CHOOSE i \in 1..Len(doc) :
                doc[i].at = "quote" /\ \A j \in (i + 1)..Len(doc) : doc[j].at # "quote"
  IN Render(SubSeq(doc, first + 1, last - 1))

HasChar(s, c) == \E i \in 1..Len(s) : s[i] = c

\* C6: quote safety.  The delimiter of a value that holds quote characters is a
\* quote that does not occur in it when there is one; when both occur, the
\* delimiter is the configured quote; and the printed value never holds a copy
\* of its own delimiter.
C6_QuoteSafety ==
  (phase = "printed" /\ Delimiter # "") =>
    LET value == LiteralText(parsed.value)
        preferred == IF options.singleQuote THEN SingleQuote ELSE DoubleQuote
    IN /\ (~HasChar(value, DoubleQuote) \/ ~HasChar(value, SingleQuote))
            => ~HasChar(value, Delimiter)
       /\ (HasChar(value, DoubleQuote) /\ HasChar(value, SingleQuote))
            => Delimiter = preferred
       /\ ~HasChar(PrintedValue, Delimiter)

(***************************************************************************)
(* ElementNode: the starting tag, the children and the ending tag.         *)
(***************************************************************************)
\* utils.js isVoidElement: the node's flag for a void or self-closing tag
isVoidElement(n) == n.void

ElementOf(id, tag, void, attributes, children) ==
  [type |-> "ElementNode", id |-> id, chars |-> <<>>, tag |-> tag, void |-> void,
   attributes |-> attributes, modifiers |-> <<>>, comments |-> <<>>,
   blockParams |-> <<>>, children |-> children]

ElementTextOf(chars) ==
  [type |-> "TextNode", id |-> 0, chars |-> chars, tag |-> <<>>, void |-> FALSE,
   attributes |-> <<>>, modifiers |-> <<>>, comments |-> <<>>,
   blockParams |-> <<>>, children |-> <<>>]

NodeType(nodes, i) == IF i < 1 \/ i > Len(nodes) THEN "" ELSE nodes[i].type

RECURSIVE PrintElementNode(_, _, _)
RECURSIVE PrintChild(_, _, _)

\* print() of child i of element n
PrintChild(n, i, opts) ==
  LET child == n.children[i]
  IN IF child.type = "TextNode"
     THEN PrintTextNode(child.chars,
            ChildPath("ElementNode", NodeType(n.children, i - 1),
                      NodeType(n.children, i + 1)), opts)
     ELSE PrintElementNode(child, NodeType(n.children, i + 1), opts)

printChildren(n, opts) ==
  LET isEmpty == \A i \in 1..Len(n.children) : isWhitespaceNode(n.children[i])
  IN IF opts.htmlWhitespaceSensitivity = "ignore" /\ isEmpty THEN <<>>
     ELSE Concat([i \in 1..Len(n.children) |->
                    (IF i = 1 /\ opts.htmlWhitespaceSensitivity = "ignore"
                     THEN <<softline>> ELSE <<>>) \o PrintChild(n, i, opts)])

\* print, case "ElementNode"; next is the type of path.next, "" when there is none
PrintElementNode(n, next, opts) ==
  LET startingTag == printStartingTag(n)
      escapeNextElementNode ==
        IF opts.htmlWhitespaceSensitivity = "ignore" /\ next = "ElementNode"
        THEN <<softline>> ELSE <<>>
      endingTag == <<Mark(<<"<", "/">>, n.id, "endingTag")>> \o Text(n.tag) \o Text(<<">">>)
  IN IF isVoidElement(n) THEN startingTag \o escapeNextElementNode
     ELSE IF Len(n.children) = 0 THEN startingTag \o endingTag \o escapeNextElementNode
     ELSE IF opts.htmlWhitespaceSensitivity = "ignore"
     THEN startingTag \o printChildren(n, opts) \o <<hardline>> \o endingTag
            \o escapeNextElementNode
     ELSE startingTag \o printChildren(n, opts) \o endingTag \o escapeNextElementNode

Img == <<"i", "m", "g">>

\* the children an element is given: text runs, a void `img` and an empty `div`
ChildChoices(i) ==
  {ElementTextOf(c) : c \in {<<"x">>, <<" ">>, <<"\n">>}}
    \cup {ElementOf(i + 1, Img, TRUE, <<>>, <<>>), ElementOf(i + 1, Div, FALSE, <<>>, <<>>)}

ChildLists ==
  {cs \in UNION {[1..k -> UNION {ChildChoices(i) : i \in 1..MaxChildren}] : k \in 0..MaxChildren} :
     \A i \in 1..Len(cs) : cs[i] \in ChildChoices(i)}

InitElement ==
  /\ source = <<>>
  /\ \E void \in BOOLEAN, children \in ChildLists, kinds \in SeqsUpTo({"AttrNode"}, 1) :
       /\ void => \A i \in 1..Len(children) : isWhitespaceNode(children[i])
       /\ node = ElementOf(1, IF void THEN Img ELSE Div, void,
                           TagNodesOfType(kinds, "AttrNode"), children)
  /\ parsed = node
  /\ \E nx \in SiblingTypes : path = ChildPath("Template", "", nx)
  /\ \E m \in WsModes : options = [htmlWhitespaceSensitivity |-> m, singleQuote |-> FALSE]
  /\ doc = <<>>
  /\ outputs = <<>>
  /\ phase = "parsed"

PrintElement ==
  /\ phase = "parsed"
  /\ doc' = PrintElementNode(node, path.next, options)
  /\ outputs' = Append(outputs, Render(doc'))
  /\ phase' = "printed"
  /\ UNCHANGED <<source, parsed, node, path, options>>

NextElement == PrintElement

SpecElement == InitElement /\ [][NextElement]_vars

\* the element and the elements among its children
ElementsOf(n) ==
  {n} \cup {n.children[i] : i \in {j \in 1..Len(n.children) : n.children[j].type = "ElementNode"}}

\* C10: void-element closing.  In both modes a void element is printed as its
\* starting tag only, the starting tag ends with `>` and never with `/>`, and an
\* element has a closing tag exactly when it is not void.
C10_VoidElementClosing ==
  phase = "printed" =>
    /\ \A e \in ElementsOf(parsed) : Emits(e.id, "endingTag") <=> ~e.void
    /\ parsed.void =>
         /\ \A i \in 1..Len(doc) :
              /\ doc[i].k = "text" => doc[i].v \in {<<"<">>, parsed.tag, <<">">>}
              /\ doc[i].k \in {"text", "printed", "line", "softline", "softline-ifBreak"}
         /\ Cardinality({i \in 1..Len(doc) : doc[i].v = <<">">>}) = 1
         /\ \A i \in 1..Len(doc) :
              doc[i].v = <<">">> => \A j \in (i + 1)..Len(doc) : doc[j].k = "softline"
    /\ ~Includes(outputs[1], <<"/", ">">>)

\* a void element that has whitespace between its tags, printed
C10_Witness ==
  /\ phase = "printed"
  /\ parsed.void
  /\ parsed.children # <<>>
  /\ options.htmlWhitespaceSensitivity = "css"

\* where the starting tag of the printed element ends: its `>`
StartingTagEnd == CHOOSE i \in 1..Len(doc) :
                    doc[i].v = <<">">> /\ \A j \in 1..(i - 1) : doc[j].v # <<">">>

\* where the closing tag of the printed element starts
EndingTagStart == CHOOSE i \in 1..Len(doc) : doc[i].of = parsed.id /\ doc[i].at = "endingTag"

\* C11: empty element pair.  In both modes a non-void element whose children
\* are all whitespace-only text (or that has no children) is printed as its
\* starting tag directly followed by its closing tag, nothing between them;
\* every other non-void element has its children between the two tags.
C11_EmptyElementPair ==
  (phase = "printed" /\ parsed.type = "ElementNode" /\ ~parsed.void) =>
    IF \A i \in 1..Len(parsed.children) : isWhitespaceNode(parsed.children[i])
    THEN EndingTagStart = StartingTagEnd + 1
    ELSE \E i \in (StartingTagEnd + 1)..(EndingTagStart - 1) : doc[i].k = "text"

BlockOrElement == {"BlockStatement", "ElementNode"}

\* C12: strict-mode boundary break.  With whitespace sensitivity "css" a text run
\* with content is printed with at least one hardline at its trailing boundary
\* when its next sibling is a block or an element, and with at least one at its
\* leading boundary when its previous sibling is one, whatever was authored there.
C12_StrictBoundaryBreak ==
  (phase = "printed" /\ node.type = "TextNode" /\ HasContent(node.chars)
     /\ options.htmlWhitespaceSensitivity # "ignore") =>
    /\ path.next \in BlockOrElement => TrailingHardlines(doc) >= 1
    /\ path.previous \in BlockOrElement => LeadingHardlines(doc) >= 1

\* C13: document-edge trimming.  With whitespace sensitivity "css" the text run
\* that is the first child of the Template is printed with no break before its
\* content, the one that is the last child with no break after its content, and
\* a whitespace-only first or last run prints nothing.
C13_DocumentEdgeTrimming ==
  (phase = "printed" /\ node.type = "TextNode" /\ path.parent = "Template"
     /\ options.htmlWhitespaceSensitivity # "ignore") =>
    /\ path.isFirst => (doc = <<>> \/ ~IsBreak(doc[1]))
    /\ path.isLast => (doc = <<>> \/ ~IsBreak(doc[Len(doc)]))
    /\ ((path.isFirst \/ path.isLast) /\ ~HasContent(node.chars)) => doc = <<>>

\* how many tokens of the Doc are printed for block id at the boundary `at`
EmitCount(id, at) == Cardinality({i \in 1..Len(doc) : doc[i].of = id /\ doc[i].at = at})

\* the else tokens printed for the inverse branch of block a: its own plain
\* `{{else}}` and the `{{else name ...}}` of a sole inverse child
ElseTokens(h, a) ==
  EmitCount(a, "else")
    + (IF Len(h[a].inverse) = 1 THEN EmitCount(h[a].inverse[1], "elseChain") ELSE 0)

\* C14: exactly one else token per inverse branch.  For every block that has an
\* inverse branch, one print pass emits exactly one else token for it: the plain
\* `{{else}}` exactly when the sole inverse child did not print itself chained.
C14_OneElseToken ==
  phase = "printed" =>
    \A a \in BlockIds(parsed) : parsed[a].hasInverse => ElseTokens(parsed, a) = 1

====
